---- MODULE Spec2Model ----
(***************************************************************************)
(* examples/4_scikit_learn_compatibility.ipynb: the notebook's code cells  *)
(* as a state machine.  One action per notebook statement; search.fit is   *)
(* unfolded into the fit and score calls GridSearchCV makes.  Times are in *)
(* milliseconds (dt = .002 s is 2).  Arrays are sequences of rows, row     *)
(* indices are 0-based as in numpy.  None is the empty tuple.              *)
(***************************************************************************)
EXTENDS Integers, Sequences, FiniteSets, TLC

VARIABLES
    pc,          \* index in Program of the next notebook statement
    run,         \* 1 for the first execution of the notebook, 2 after a restart
    err,         \* the exception that stopped the run, "none" otherwise
    rng,         \* state of numpy's global random generator
    oracle,      \* which table of (uninterpreted) score values the numerics give
    setup,       \* cell 1: warning filters and integrator_keywords
    defined,     \* names bound in the kernel's namespace
    t_train, x_train, t_test, x_test,
    model,       \* the notebook variable `model`
    x_dot,       \* the notebook variable `x_dot`
    param_grid,  \* the notebook variable `param_grid`
    search,      \* the notebook variable `search` (a GridSearchCV)
    stack,       \* library calls in progress, innermost last
    calls,       \* parent-class invocations made by the latest estimator method call
    ret,         \* what the latest estimator method call returned
    args,        \* the arguments of the latest estimator method call, as the caller holds them
    diffs,       \* differentiations: explicit ones, and those made during search.fit
    stdout,      \* what has been printed
    log,         \* the notebook statements executed so far, with what each one found
    hist,        \* per finished search of this run: its splits and best parameters
    prev         \* hist and stdout of the previous run

vars == <<pc, run, err, rng, oracle, setup, defined, t_train, x_train, t_test,
          x_test, model, x_dot, param_grid, search, stack, calls, ret, args,
          diffs, stdout, log, hist, prev>>

----------------------------------------------------------------------------
(* Bounds of the model *)

\* t_train = np.arange(0, TrainStop, dt); the notebook's stop is TRAIN_END.
TrainStop == 24
\* t_test = np.arange(0, TestStop, dt); the notebook's stop is TEST_END.
TestStop == 36
\* the kernel seeds numpy's global generator from the OS: a state in 0..MaxSeed
MaxSeed == 1
\* the score tables the numerics may produce: 0..MaxOracle
MaxOracle == 1
\* executions of the notebook (Restart between them)
MaxRuns == 2

(* Program constants *)

dt == 2
TRAIN_END == 10000
TEST_END == 15000
TS_N_SPLITS == 5
SS_N_SPLITS == 3
SS_TEST_PCT == 25
T_DEFAULT == 1000

None == <<>>
IsNone(v) == v = <<>>

----------------------------------------------------------------------------
(* numpy *)

CeilDiv(a, b) == (a + b - 1) \div b

\* len(np.arange(start, stop, step)) = ceil((stop - start) / step)
ArangeLen(start, stop, step) ==
    IF stop > start THEN CeilDiv(stop - start, step) ELSE 0

\* np.arange(start, stop, step)[i] = start + i*step
arange(start, stop, step) ==
    [i \in 1..ArangeLen(start, stop, step) |-> start + (i - 1) * step]

\* a[idx] for an index array idx (0-based indices)
Take(a, idx) == [k \in 1..Len(idx) |-> a[idx[k] + 1]]

\* The generator: its state is a counter, a draw mixes the counter.  The
\* next state, the state after k draws, and a draw in 0..n-1 from a state.
RngNext(s) == s + 1
RngAfter(s, k) == s + k
RngBelow(s, n) == ((7 * s * s + 13 * s + 5) % 61) % n

Swap(a, i, j) == [a EXCEPT ![i] = a[j], ![j] = a[i]]

\* rng.permutation(n): Fisher-Yates over arange(n), i = n-1 down to 1,
\* j drawn in 0..i; consumes n-1 draws.
RECURSIVE Shuffle(_, _, _)
Shuffle(a, i, s) ==
    IF i < 1 THEN a
    ELSE Shuffle(Swap(a, i + 1, RngBelow(s, i + 1) + 1), i - 1, RngNext(s))

permutation(s, n) == Shuffle(arange(0, n, 1), n - 1, s)

----------------------------------------------------------------------------
(* scipy.integrate.solve_ivp(lorenz, t_span, x0, t_eval=..., **kw).y.T:    *)
(* one row per evaluation time; the row at time t of the trajectory from   *)
(* initial condition ic is the pair <<ic, t>>.  ValueError when a t_eval   *)
(* lies outside t_span.                                                    *)

InSpan(span, t_eval) ==
    \A i \in 1..Len(t_eval) : span[1] <= t_eval[i] /\ t_eval[i] <= span[2]

solve_ivp(ic, span, t_eval) == [i \in 1..Len(t_eval) |-> <<ic, t_eval[i]>>]

----------------------------------------------------------------------------
(* sklearn.model_selection splitters.  A split is [train |-> indices,      *)
(* test |-> indices].                                                      *)

\* TimeSeriesSplit(n_splits).split(X) with gap = 0 and no max_train_size:
\*   test_size = n_samples // (n_splits + 1)
\*   test_starts = range(n_samples - n_splits*test_size, n_samples, test_size)
\*   yield indices[:test_start], indices[test_start:test_start + test_size]
TSTestSize(n, n_splits) == n \div (n_splits + 1)
TSTestStart(n, n_splits, k) ==
    n - n_splits * TSTestSize(n, n_splits) + (k - 1) * TSTestSize(n, n_splits)

TimeSeriesSplit(n, n_splits) ==
    [k \in 1..n_splits |->
        [train |-> arange(0, TSTestStart(n, n_splits, k), 1),
         test  |-> arange(TSTestStart(n, n_splits, k),
                          TSTestStart(n, n_splits, k) + TSTestSize(n, n_splits), 1)]]

\* ShuffleSplit(n_splits, test_size=pct/100): n_test = ceil(test_size * n),
\* n_train = n - n_test; per split one rng.permutation(n),
\* test = permutation[:n_test], train = permutation[n_test:n_test + n_train].
SSNTest(n, pct) == CeilDiv(pct * n, 100)

ShuffleSplitOne(s, n, pct) ==
    LET p == permutation(s, n)
    IN  [train |-> SubSeq(p, SSNTest(n, pct) + 1, n),
         test  |-> SubSeq(p, 1, SSNTest(n, pct))]

\* the generator's state when the k-th permutation is drawn
SSState(s, n, k) == RngAfter(s, (k - 1) * (n - 1))

ShuffleSplit(s, n, n_splits, pct) ==
    [k \in 1..n_splits |-> ShuffleSplitOne(SSState(s, n, k), n, pct)]

\* cv.split(X): the splits, and the generator's state afterwards.  Only a
\* ShuffleSplit without random_state draws from the global generator.
CVSplit(cv, s, n) ==
    IF cv.kind = "TimeSeriesSplit"
    THEN [splits |-> TimeSeriesSplit(n, cv.n_splits), rng |-> s]
    ELSE [splits |-> ShuffleSplit(s, n, cv.n_splits, cv.test_pct),
          rng |-> SSState(s, n, cv.n_splits + 1)]

----------------------------------------------------------------------------
(* sklearn.model_selection.ParameterGrid: keys sorted, the last key        *)
(* varying fastest.  A grid maps each key to the list of its values.       *)

SortedKeys ==
    <<"differentiation_method__kwargs", "differentiation_method__order",
      "feature_library", "feature_library__degree",
      "optimizer__alpha", "optimizer__threshold">>

GridKeys(grid) == SelectSeq(SortedKeys, LAMBDA k : k \in DOMAIN grid)

RECURSIVE ProdLen(_, _, _)
ProdLen(grid, keys, j) ==
    IF j > Len(keys) THEN 1 ELSE Len(grid[keys[j]]) * ProdLen(grid, keys, j + 1)

GridSize(grid) == ProdLen(grid, GridKeys(grid), 1)

KeyPos(keys, k) == CHOOSE j \in 1..Len(keys) : keys[j] = k

\* the c-th candidate (c = 1..GridSize): a dict key -> value
Candidate(grid, c) ==
    LET keys == GridKeys(grid)
    IN  [k \in DOMAIN grid |->
            LET j == KeyPos(keys, k)
            IN  grid[k][(((c - 1) \div ProdLen(grid, keys, j + 1)) % Len(grid[k])) + 1]]

----------------------------------------------------------------------------
(* pysindy.SINDy.  An estimator is                                         *)
(*   [cls, init (the constructor's parameters), params (what set_params    *)
(*    set), pid (the index of params in its grid, 0 when none was set),    *)
(*    fitted, coef (what fit learnt: the data it regressed on)].           *)

SINDyDefaults ==
    [optimizer |-> "None", feature_library |-> "None",
     differentiation_method |-> "None", feature_names |-> "None",
     t_default |-> T_DEFAULT, discrete_time |-> FALSE]

NoCoef == [x |-> <<>>, x_dot |-> <<>>]

SINDy_init(cls, kw) ==
    [cls |-> cls, init |-> kw @@ SINDyDefaults, params |-> <<>>, pid |-> 0,
     fitted |-> FALSE, coef |-> NoCoef]

Undefined == SINDy_init("undefined", <<>>)

clone(est) == [est EXCEPT !.fitted = FALSE, !.coef = NoCoef]
set_params(est, p, pid) == [est EXCEPT !.params = p, !.pid = pid]

Lo(i) == IF i > 1 THEN i - 1 ELSE i
Hi(i, n) == IF i < n THEN i + 1 ELSE i

\* differentiate(x, t) by finite differences: the derivative at row i is
\* taken from the neighbouring rows and the time between them.
DiffUniform(x, h) ==
    [i \in 1..Len(x) |->
        [at |-> x[i], lo |-> x[Lo(i)], hi |-> x[Hi(i, Len(x))],
         h |-> h * (Hi(i, Len(x)) - Lo(i))]]

DiffArray(x, t) ==
    [i \in 1..Len(x) |->
        [at |-> x[i], lo |-> x[Lo(i)], hi |-> x[Hi(i, Len(x))],
         h |-> t[Hi(i, Len(x))] - t[Lo(i)]]]

Given(kw, k) == k \in DOMAIN kw /\ ~IsNone(kw[k])

\* the derivatives fit and score regress on: x_dot when given, else x
\* differentiated over t, else over t_default
XDotOf(self, x, kw) ==
    IF Given(kw, "x_dot") THEN kw["x_dot"]
    ELSE IF Given(kw, "t") THEN DiffArray(x, kw["t"])
    ELSE DiffUniform(x, self.init.t_default)

\* SINDy.fit(x, **kw): returns self, fitted
SINDy_fit(self, x, kw) ==
    [self EXCEPT !.fitted = TRUE, !.coef = [x |-> x, x_dot |-> XDotOf(self, x, kw)]]

\* the numerics' score of a fitted model on test rows: uninterpreted, a
\* table indexed by o
ScoreValue(o, pid, ntrain, t0, h) == ((o + 1) * pid + pid * pid + ntrain + t0 + h) % 7

\* SINDy.score(x, **kw): metric(x_dot, predicted x_dot)
SINDy_score(self, x, kw, o) ==
    ScoreValue(o, self.pid, Len(self.coef.x), x[1][2], XDotOf(self, x, kw)[1].h)

\* What one estimator method call did: the exception it raised, the SINDy
\* (parent-class) invocations it made, the value it returned, the estimator
\* afterwards, and how many times the data was differentiated.
Raised(self, exc) ==
    [exc |-> exc, calls |-> <<>>, ret |-> None, self |-> self, ndiff |-> 0]

Invoke_fit(self, x, kw) ==
    [exc |-> "none", calls |-> <<[fn |-> "SINDy.fit", x |-> x, kw |-> kw]>>,
     ret |-> SINDy_fit(self, x, kw), self |-> SINDy_fit(self, x, kw),
     ndiff |-> IF Given(kw, "x_dot") THEN 0 ELSE 1]

\* SINDy.score raises NotFittedError on a model that was not fitted
Invoke_score(self, x, kw, o) ==
    [exc |-> IF self.fitted THEN "none" ELSE "NotFittedError",
     calls |-> <<[fn |-> "SINDy.score", x |-> x, kw |-> kw]>>,
     ret |-> IF self.fitted THEN SINDy_score(self, x, kw, o) ELSE None,
     self |-> self,
     ndiff |-> IF self.fitted /\ ~Given(kw, "x_dot") THEN 1 ELSE 0]

----------------------------------------------------------------------------
(* class SINDyCV(ps.SINDy) of the notebook *)

Restrict(f, S) == [k \in (DOMAIN f) \cap S |-> f[k]]

SINDyCV_init(kw) ==
    SINDy_init("SINDyCV",
        [optimizer |-> (kw @@ SINDyDefaults).optimizer,
         feature_library |-> (kw @@ SINDyDefaults).feature_library,
         differentiation_method |-> (kw @@ SINDyDefaults).differentiation_method,
         feature_names |-> (kw @@ SINDyDefaults).feature_names,
         t_default |-> (kw @@ SINDyDefaults).t_default,
         discrete_time |-> (kw @@ SINDyDefaults).discrete_time])

\* fit without `x_dot=y`: the parent is left to differentiate x itself
SINDyCV_fit_drops_y(self, x, y, kwargs) ==
    IF "x_dot" \in DOMAIN kwargs THEN Raised(self, "TypeError")
    ELSE Invoke_fit(self, x, ("x_dot" :> None) @@ kwargs)

\* def fit(self, x, y, **kwargs): return super().fit(x, x_dot=y, **kwargs)
\* A keyword given both explicitly and in **kwargs is a TypeError at the call.
SINDyCV_fit(self, x, y, kwargs) ==
    IF "x_dot" \in DOMAIN kwargs THEN Raised(self, "TypeError")
    ELSE Invoke_fit(self, x, ("x_dot" :> y) @@ kwargs)

ScoreNamed == {"t", "u", "multiple_trajectories", "metric"}
ScoreDefaults ==
    [t |-> None, u |-> None, multiple_trajectories |-> FALSE, metric |-> "r2_score"]

\* score with `metric=r2_score` in place of `metric=metric`
SINDyCV_score_fixed_metric(self, x, y, kw, o) ==
    LET named == [metric |-> "r2_score"] @@ Restrict(kw, ScoreNamed) @@ ScoreDefaults
        metric_kws == Restrict(kw, (DOMAIN kw) \ ScoreNamed)
    IN  IF "x_dot" \in DOMAIN metric_kws THEN Raised(self, "TypeError")
        ELSE Invoke_score(self, x, ("x_dot" :> y) @@ named @@ metric_kws, o)

\* def score(self, x, y, t=None, u=None, multiple_trajectories=False,
\*           metric=r2_score, **metric_kws):
\*     return super().score(x, x_dot=y, t=t, u=u, multiple_trajectories=...,
\*                          metric=metric, **metric_kws)
\* kw holds the keywords the caller gave; those not named are metric_kws.
SINDyCV_score(self, x, y, kw, o) ==
    LET named == Restrict(kw, ScoreNamed) @@ ScoreDefaults
        metric_kws == Restrict(kw, (DOMAIN kw) \ ScoreNamed)
    IN  IF "x_dot" \in DOMAIN metric_kws THEN Raised(self, "TypeError")
        ELSE Invoke_score(self, x, ("x_dot" :> y) @@ named @@ metric_kws, o)

\* estimator.fit(X) / estimator.fit(X, y) as GridSearchCV calls it: the
\* second positional parameter is y for SINDyCV and t for SINDy.
Method_fit(est, x, y) ==
    IF est.cls = "SINDyCV"
    THEN (IF IsNone(y) THEN Raised(est, "TypeError") ELSE SINDyCV_fit(est, x, y, <<>>))
    ELSE Invoke_fit(est, x, IF IsNone(y) THEN <<>> ELSE ("t" :> y))

Method_score(est, x, y, o) ==
    IF est.cls = "SINDyCV"
    THEN (IF IsNone(y) THEN Raised(est, "TypeError") ELSE SINDyCV_score(est, x, y, <<>>, o))
    ELSE Invoke_score(est, x, IF IsNone(y) THEN <<>> ELSE ("t" :> y), o)

----------------------------------------------------------------------------
(* The notebook.  Thresholds, alphas and s are in thousandths.             *)

ParamGrid1 ==
    [optimizer__threshold |-> <<1, 10, 100>>,
     optimizer__alpha |-> <<10, 50, 100>>,
     feature_library |-> <<"PolynomialLibrary()", "FourierLibrary()">>,
     differentiation_method__order |-> <<1, 2>>]

ParamGrid2 ==
    [optimizer__threshold |-> <<1, 10, 100>>,
     differentiation_method__kwargs |->
        <<[kind |-> "spline", s |-> 10], [kind |-> "spline", s |-> 100],
          [kind |-> "finite_difference", k |-> 1],
          [kind |-> "finite_difference", k |-> 2]>>]

ParamGrid3 ==
    [optimizer__threshold |-> <<2, 10, 100>>,
     optimizer__alpha |-> <<10, 50, 100>>,
     feature_library__degree |-> <<1, 2, 3>>]

NoGrid == [optimizer__threshold |-> <<>>]

\* the "Best parameters:" lines stored in the notebook's outputs
RecordedBest1 ==
    [differentiation_method__order |-> 1, feature_library |-> "PolynomialLibrary()",
     optimizer__alpha |-> 10, optimizer__threshold |-> 10]
RecordedBest2 ==
    [differentiation_method__kwargs |-> [kind |-> "spline", s |-> 10],
     optimizer__threshold |-> 100]
RecordedBest3 ==
    [feature_library__degree |-> 2, optimizer__alpha |-> 10, optimizer__threshold |-> 2]

\* cv=ShuffleSplit(n_splits=5, test_size=0.25) in place of TimeSeriesSplit
TSCV_shuffled == [kind |-> "ShuffleSplit", n_splits |-> TS_N_SPLITS, test_pct |-> SS_TEST_PCT]

TSCV == [kind |-> "TimeSeriesSplit", n_splits |-> TS_N_SPLITS, test_pct |-> 0]
SSCV == [kind |-> "ShuffleSplit", n_splits |-> SS_N_SPLITS, test_pct |-> SS_TEST_PCT]

Stmt(op, cell, a) == [op |-> op, cell |-> cell, a |-> a]

Cell1 == <<Stmt("setup", 1, <<>>)>>
Cell2 == <<Stmt("gen_data", 2, <<>>)>>
Cell3 ==
    <<Stmt("new_model", 3, [cls |-> "SINDy", kw |-> [t_default |-> dt]]),
      Stmt("param_grid", 3, [grid |-> ParamGrid1]),
      Stmt("new_search", 3, [cv |-> TSCV]),
      Stmt("search_fit", 3, [y |-> "none"]),
      Stmt("print_best", 3, <<>>),
      Stmt("print_eq", 3, [target |-> "search.best_estimator_"])>>
Cell4 ==
    <<Stmt("new_model", 4,
           [cls |-> "SINDy",
            kw |-> [t_default |-> dt,
                    differentiation_method |-> "SINDyDerivative(kind=spline, s=0.01)"]]),
      Stmt("param_grid", 4, [grid |-> ParamGrid2]),
      Stmt("new_search", 4, [cv |-> TSCV]),
      Stmt("search_fit", 4, [y |-> "none"]),
      Stmt("print_best", 4, <<>>),
      Stmt("print_eq", 4, [target |-> "search.best_estimator_"])>>
Cell5 == <<Stmt("def_class", 5, <<>>)>>
Cell6 ==
    <<Stmt("new_model", 6, [cls |-> "SINDyCV", kw |-> <<>>]),
      Stmt("differentiate", 6, <<>>),
      Stmt("param_grid", 6, [grid |-> ParamGrid3]),
      Stmt("new_search", 6, [cv |-> SSCV]),
      Stmt("search_fit", 6, [y |-> "x_dot"]),
      Stmt("print_best", 6, <<>>),
      Stmt("print_eq", 6, [target |-> "search.best_estimator_"])>>
\* cell 7 without t_default=dt
Cell7_default_step ==
    <<Stmt("new_model", 7,
           [cls |-> "SINDy",
            kw |-> [optimizer |-> "ElasticNet(l1_ratio=0.9, fit_intercept=False)"]]),
      Stmt("model_fit", 7, <<>>),
      Stmt("print_eq", 7, [target |-> "model"])>>

Cell7 ==
    <<Stmt("new_model", 7,
           [cls |-> "SINDy",
            kw |-> [optimizer |-> "ElasticNet(l1_ratio=0.9, fit_intercept=False)",
                    t_default |-> dt]]),
      Stmt("model_fit", 7, <<>>),
      Stmt("print_eq", 7, [target |-> "model"])>>
\* cell 8 with model.print() before model.fit(x_train)
Cell8_print_first ==
    <<Stmt("new_model", 8,
           [cls |-> "SINDy",
            kw |-> [optimizer |-> "OrthogonalMatchingPursuit(n_nonzero_coefs=8, fit_intercept=False)",
                    t_default |-> dt]]),
      Stmt("print_eq", 8, [target |-> "model"]),
      Stmt("model_fit", 8, <<>>)>>

Cell8 ==
    <<Stmt("new_model", 8,
           [cls |-> "SINDy",
            kw |-> [optimizer |-> "OrthogonalMatchingPursuit(n_nonzero_coefs=8, fit_intercept=False)",
                    t_default |-> dt]]),
      Stmt("model_fit", 8, <<>>),
      Stmt("print_eq", 8, [target |-> "model"])>>

Program == Cell1 \o Cell2 \o Cell3 \o Cell4 \o Cell5 \o Cell6 \o Cell7 \o Cell8

----------------------------------------------------------------------------
(* State *)

NoSearch ==
    [phase |-> "undefined", estimator |-> Undefined, grid |-> NoGrid, cv |-> TSCV,
     y |-> None, splits |-> <<>>, c |-> 0, s |-> 0, sub |-> "none",
     est |-> Undefined, scores |-> <<>>, nfit |-> <<>>, best_index |-> 0,
     best_params |-> <<>>, best_estimator |-> Undefined]

NoArgs == [method |-> "none", self |-> Undefined, x |-> <<>>, y |-> <<>>, kw |-> <<>>]

NoSetup == [warnings |-> {}, integrator_keywords |-> <<>>]

Init ==
    /\ run = 1
    /\ oracle \in 0..MaxOracle
    /\ prev = [hist |-> <<>>, stdout |-> <<>>]
    /\ pc = 1
    /\ err = "none"
    /\ rng \in 0..MaxSeed
    /\ setup = NoSetup
    /\ defined = {}
    /\ t_train = <<>> /\ x_train = <<>> /\ t_test = <<>> /\ x_test = <<>>
    /\ model = Undefined
    /\ x_dot = <<>>
    /\ param_grid = NoGrid
    /\ search = NoSearch
    /\ stack = <<>>
    /\ calls = <<>> /\ ret = None /\ args = NoArgs
    /\ diffs = [explicit |-> 0, search |-> 0]
    /\ stdout = <<>>
    /\ log = <<>>
    /\ hist = <<>>

dataVars == <<t_train, x_train, t_test, x_test>>
callVars == <<calls, ret, args>>
kernelVars == <<run, rng, oracle, prev>>

Done == pc = Len(Program) + 1

\* the interpreter is at a statement with this op and no call is in progress
At(op) ==
    /\ err = "none"
    /\ stack = <<>>
    /\ pc <= Len(Program)
    /\ Program[pc].op = op

\* the statement is executed: it ran to its end (ok), or raised e
Executed(ok, e) ==
    /\ log' = Append(log, [stmt |-> pc, op |-> Program[pc].op, ok |-> ok])
    /\ err' = IF ok THEN "none" ELSE e
    /\ pc' = IF ok THEN pc + 1 ELSE pc

Bind(names) == defined' = defined \cup names

----------------------------------------------------------------------------
(* Cells 1 and 2 *)

Setup ==
    /\ At("setup")
    /\ setup' = [warnings |-> {"UserWarning", "FutureWarning"},
                 integrator_keywords |->
                    [rtol |-> "1e-15", method |-> "LSODA", atol |-> "1e-10"]]
    /\ Bind({"np", "solve_ivp", "lorenz", "ps", "integrator_keywords"})
    /\ Executed(TRUE, "none")
    /\ UNCHANGED <<dataVars, model, x_dot, param_grid, search, stack, callVars,
                   diffs, stdout, hist, kernelVars>>

Span(t) == <<t[1], t[Len(t)]>>

GenerateData ==
    /\ At("gen_data")
    /\ LET tr == arange(0, TrainStop, dt)
           te == arange(0, TestStop, dt)
           ok == /\ {"np", "solve_ivp", "lorenz", "integrator_keywords"} \subseteq defined
                 /\ InSpan(Span(tr), tr) /\ InSpan(Span(te), te)
       IN  /\ Executed(ok, "ValueError")
           /\ IF ok
              THEN /\ t_train' = tr
                   /\ x_train' = solve_ivp(1, Span(tr), tr)
                   /\ t_test' = te
                   /\ x_test' = solve_ivp(2, Span(te), te)
                   /\ Bind({"dt", "t_train", "x_train", "t_test", "x_test"})
              ELSE UNCHANGED <<dataVars, defined>>
    /\ UNCHANGED <<setup, model, x_dot, param_grid, search, stack, callVars,
                   diffs, stdout, hist, kernelVars>>

----------------------------------------------------------------------------
(* Constructing the model, the grid and the search *)

NewModel ==
    /\ At("new_model")
    /\ LET a == Program[pc].a
           ok == /\ "ps" \in defined
                 /\ "t_default" \in DOMAIN a.kw => "dt" \in defined
                 /\ a.cls = "SINDyCV" => "SINDyCV" \in defined
       IN  /\ Executed(ok, "NameError")
           /\ IF ok
              THEN /\ model' = IF a.cls = "SINDyCV" THEN SINDyCV_init(a.kw)
                                                    ELSE SINDy_init(a.cls, a.kw)
                   /\ Bind({"model"})
              ELSE UNCHANGED <<model, defined>>
    /\ UNCHANGED <<setup, dataVars, x_dot, param_grid, search, stack, callVars,
                   diffs, stdout, hist, kernelVars>>

SetParamGrid ==
    /\ At("param_grid")
    /\ Executed("ps" \in defined, "NameError")
    /\ IF "ps" \in defined
       THEN param_grid' = Program[pc].a.grid /\ Bind({"param_grid"})
       ELSE UNCHANGED <<param_grid, defined>>
    /\ UNCHANGED <<setup, dataVars, model, x_dot, search, stack, callVars,
                   diffs, stdout, hist, kernelVars>>

NewSearch ==
    /\ At("new_search")
    /\ LET ok == {"model", "param_grid"} \subseteq defined
       IN  /\ Executed(ok, "NameError")
           /\ IF ok
              THEN /\ search' = [NoSearch EXCEPT !.phase = "new", !.estimator = model,
                                                 !.grid = param_grid,
                                                 !.cv = Program[pc].a.cv]
                   /\ Bind({"search"})
              ELSE UNCHANGED <<search, defined>>
    /\ UNCHANGED <<setup, dataVars, model, x_dot, param_grid, stack, callVars,
                   diffs, stdout, hist, kernelVars>>

DefineClass ==
    /\ At("def_class")
    /\ Executed("ps" \in defined, "NameError")
    /\ IF "ps" \in defined THEN Bind({"SINDyCV", "r2_score"}) ELSE UNCHANGED defined
    /\ UNCHANGED <<setup, dataVars, model, x_dot, param_grid, search, stack,
                   callVars, diffs, stdout, hist, kernelVars>>

\* x_dot = model.differentiate(x_train, t=t_train)
Differentiate ==
    /\ At("differentiate")
    /\ LET ok == {"model", "x_train", "t_train"} \subseteq defined
       IN  /\ Executed(ok, "NameError")
           /\ IF ok
              THEN /\ x_dot' = DiffArray(x_train, t_train)
                   /\ diffs' = [diffs EXCEPT !.explicit = @ + 1]
                   /\ Bind({"x_dot"})
              ELSE UNCHANGED <<x_dot, diffs, defined>>
    /\ UNCHANGED <<setup, dataVars, model, param_grid, search, stack, callVars,
                   stdout, hist, kernelVars>>

----------------------------------------------------------------------------
(* search.fit(X[, y]): sklearn.model_selection.GridSearchCV.fit with       *)
(* scoring=None, refit=True, n_jobs=None.  The splits are drawn once, then *)
(* every candidate is fitted and scored on every split, candidates in the  *)
(* outer loop; the best candidate is the first of highest mean score and   *)
(* is refitted on all of X (and y).                                        *)

\* the notebook value that a name passed as y stands for
ValueOf(name) ==
    IF name = "x_dot" THEN x_dot
    ELSE IF name = "x_train" THEN x_train
    ELSE None

SearchFitCall ==
    /\ At("search_fit")
    /\ LET yname == Program[pc].a.y
           ok == /\ {"search", "x_train"} \subseteq defined
                 /\ yname # "none" => yname \in defined
           sp == CVSplit(search.cv, rng, Len(x_train))
           n  == GridSize(search.grid)
       IN  IF ok
           THEN /\ log' = Append(log, [stmt |-> pc, op |-> "search_fit", ok |-> TRUE])
                /\ stack' = <<"GridSearchCV.fit">>
                /\ search' = [search EXCEPT !.phase = "fitting", !.y = ValueOf(yname),
                                            !.splits = sp.splits, !.c = 1, !.s = 1,
                                            !.sub = "fit",
                                            !.scores = [c \in 1..n |-> <<>>],
                                            !.nfit = [c \in 1..n |-> 0]]
                /\ rng' = sp.rng
                /\ diffs' = [diffs EXCEPT !.search = 0]
                /\ UNCHANGED <<pc, err>>
           ELSE /\ Executed(FALSE, "NameError")
                /\ UNCHANGED <<stack, search, rng, diffs>>
    /\ UNCHANGED <<setup, defined, dataVars, model, x_dot, param_grid, callVars,
                   stdout, hist, run, oracle, prev>>

InSearch(sub) ==
    /\ err = "none"
    /\ stack = <<"GridSearchCV.fit">>
    /\ search.sub = sub

\* the rows of y that go with the rows idx of X (None when y is None)
SafeSplit(a, idx) == IF IsNone(a) THEN None ELSE Take(a, idx)

\* the loop's position after candidate c has been scored on split s
Advance(sr) ==
    IF sr.s < Len(sr.splits) THEN [sr EXCEPT !.s = @ + 1, !.sub = "fit"]
    ELSE IF sr.c < GridSize(sr.grid) THEN [sr EXCEPT !.c = @ + 1, !.s = 1, !.sub = "fit"]
    ELSE [sr EXCEPT !.sub = "refit"]

\* a fit that raises scores error_score (nan, here -1) and is not scored
FitCandidate ==
    /\ InSearch("fit")
    /\ LET est0 == set_params(clone(search.estimator),
                              Candidate(search.grid, search.c), search.c)
           idx == search.splits[search.s].train
           X == Take(x_train, idx)
           y == SafeSplit(search.y, idx)
           r == Method_fit(est0, X, y)
           counted == [search EXCEPT !.est = r.self, !.nfit[search.c] = @ + 1]
       IN  /\ args' = [method |-> "fit", self |-> est0, x |-> X, y |-> y, kw |-> <<>>]
           /\ calls' = r.calls
           /\ ret' = r.ret
           /\ diffs' = [diffs EXCEPT !.search = @ + r.ndiff]
           /\ search' = IF r.exc = "none"
                        THEN [counted EXCEPT !.sub = "score"]
                        ELSE Advance([counted EXCEPT
                                        !.scores[search.c] = Append(@, -1)])
    /\ UNCHANGED <<pc, err, log, stack, setup, defined, dataVars, model, x_dot,
                   param_grid, stdout, hist, kernelVars>>

ScoreCandidate ==
    /\ InSearch("score")
    /\ LET idx == search.splits[search.s].test
           X == Take(x_train, idx)
           y == SafeSplit(search.y, idx)
           r == Method_score(search.est, X, y, oracle)
           score == IF r.exc = "none" THEN r.ret ELSE -1
       IN  /\ args' = [method |-> "score", self |-> search.est, x |-> X, y |-> y,
                       kw |-> <<>>]
           /\ calls' = r.calls
           /\ ret' = r.ret
           /\ diffs' = [diffs EXCEPT !.search = @ + r.ndiff]
           /\ search' = Advance([search EXCEPT !.scores[search.c] = Append(@, score)])
    /\ UNCHANGED <<pc, err, log, stack, setup, defined, dataVars, model, x_dot,
                   param_grid, stdout, hist, kernelVars>>

RECURSIVE SumSeq(_)
SumSeq(q) == IF q = <<>> THEN 0 ELSE Head(q) + SumSeq(Tail(q))

\* the first candidate of lowest mean: the ranks taken the wrong way round
BestIndex_lowest(scores) ==
    CHOOSE c \in 1..Len(scores) :
        /\ \A d \in 1..Len(scores) : SumSeq(scores[d]) >= SumSeq(scores[c])
        /\ \A d \in 1..(c - 1) : SumSeq(scores[d]) > SumSeq(scores[c])

\* best_index_ = rank_test_score.argmin(): the first candidate whose mean
\* (here: sum, every candidate has the same number of splits) is highest
BestIndex(scores) ==
    CHOOSE c \in 1..Len(scores) :
        /\ \A d \in 1..Len(scores) : SumSeq(scores[d]) <= SumSeq(scores[c])
        /\ \A d \in 1..(c - 1) : SumSeq(scores[d]) < SumSeq(scores[c])

SearchFitReturn ==
    /\ InSearch("refit")
    /\ LET best == BestIndex(search.scores)
           est0 == set_params(clone(search.estimator),
                              Candidate(search.grid, best), best)
           r == Method_fit(est0, x_train, search.y)
       IN  /\ args' = [method |-> "fit", self |-> est0, x |-> x_train,
                       y |-> search.y, kw |-> <<>>]
           /\ calls' = r.calls
           /\ ret' = r.ret
           /\ diffs' = [diffs EXCEPT !.search = @ + r.ndiff]
           /\ search' = [search EXCEPT !.phase = "fitted", !.sub = "none",
                                       !.best_index = best,
                                       !.best_params = Candidate(search.grid, best),
                                       !.best_estimator = r.self]
           /\ hist' = Append(hist, [cell |-> Program[pc].cell,
                                    splits |-> search.splits,
                                    best_index |-> best,
                                    best_params |-> Candidate(search.grid, best)])
    /\ stack' = <<>>
    /\ log' = Append(log, [stmt |-> pc, op |-> "search_fit_return", ok |-> TRUE])
    /\ pc' = pc + 1
    /\ UNCHANGED <<err, setup, defined, dataVars, model, x_dot, param_grid,
                   stdout, kernelVars>>

----------------------------------------------------------------------------
(* model.fit(x_train), and the prints *)

ModelFit ==
    /\ At("model_fit")
    /\ LET ok == {"model", "x_train"} \subseteq defined
           r == Method_fit(model, x_train, None)
       IN  /\ Executed(ok /\ r.exc = "none", IF ok THEN r.exc ELSE "NameError")
           /\ IF ok
              THEN /\ args' = [method |-> "fit", self |-> model, x |-> x_train,
                               y |-> None, kw |-> <<>>]
                   /\ calls' = r.calls
                   /\ ret' = r.ret
                   /\ model' = r.self
              ELSE UNCHANGED <<callVars, model>>
    /\ UNCHANGED <<setup, defined, dataVars, x_dot, param_grid, search, stack,
                   diffs, stdout, hist, kernelVars>>

\* print("Best parameters:", search.best_params_)
PrintBest ==
    /\ At("print_best")
    /\ LET ok == "search" \in defined /\ search.phase = "fitted"
       IN  /\ Executed(ok, "AttributeError")
           /\ stdout' = IF ok
                        THEN Append(stdout, [kind |-> "best_params", cell |-> Program[pc].cell,
                                             value |-> search.best_params])
                        ELSE stdout
    /\ UNCHANGED <<setup, defined, dataVars, model, x_dot, param_grid, search,
                   stack, callVars, diffs, hist, kernelVars>>

\* what print() renders of a fitted model: its parameters and coefficients,
\* the coefficients standing for the data they were regressed on
Equations(est) ==
    [cls |-> est.cls, optimizer |-> est.init.optimizer, params |-> est.params,
     rows |-> Len(est.coef.x), first |-> est.coef.x[1], h |-> est.coef.x_dot[1].h]

\* model.print() / search.best_estimator_.print()
PrintEquations ==
    /\ At("print_eq")
    /\ LET tgt == Program[pc].a.target
           est == IF tgt = "model" THEN model ELSE search.best_estimator
           ok == /\ (IF tgt = "model" THEN "model" ELSE "search") \in defined
                 /\ est.fitted
       IN  /\ Executed(ok, "NotFittedError")
           /\ stdout' = IF ok
                        THEN Append(stdout, [kind |-> "equations", cell |-> Program[pc].cell,
                                             value |-> Equations(est)])
                        ELSE stdout
    /\ UNCHANGED <<setup, defined, dataVars, model, x_dot, param_grid, search,
                   stack, callVars, diffs, hist, kernelVars>>

\* Restart the kernel and run all cells again
Restart ==
    /\ Done
    /\ run < MaxRuns
    /\ run' = run + 1
    /\ prev' = [hist |-> hist, stdout |-> stdout]
    /\ pc' = 1
    /\ err' = "none"
    /\ rng' \in 0..MaxSeed
    /\ setup' = NoSetup
    /\ defined' = {}
    /\ t_train' = <<>> /\ x_train' = <<>> /\ t_test' = <<>> /\ x_test' = <<>>
    /\ model' = Undefined
    /\ x_dot' = <<>>
    /\ param_grid' = NoGrid
    /\ search' = NoSearch
    /\ stack' = <<>>
    /\ calls' = <<>> /\ ret' = None /\ args' = NoArgs
    /\ diffs' = [explicit |-> 0, search |-> 0]
    /\ stdout' = <<>>
    /\ log' = <<>>
    /\ hist' = <<>>
    /\ UNCHANGED oracle

Next ==
    \/ Setup
    \/ GenerateData
    \/ NewModel
    \/ SetParamGrid
    \/ NewSearch
    \/ DefineClass
    \/ Differentiate
    \/ SearchFitCall
    \/ FitCandidate
    \/ ScoreCandidate
    \/ SearchFitReturn
    \/ ModelFit
    \/ PrintBest
    \/ PrintEquations
    \/ Restart

Spec == Init /\ [][Next]_vars

----------------------------------------------------------------------------
(* SINDyCV.fit and SINDyCV.score on their own: an estimator of class       *)
(* SINDyCV is called with arguments drawn from small sets.  err is the     *)
(* exception the latest call raised.                                       *)

\* rows of the largest array the calls are given
CVRows == 3

CVArrays ==
    {solve_ivp(1, <<0, (n - 1) * dt>>, arange(0, n * dt, dt)) :
        n \in (CVRows - 1)..CVRows}

CVDerivs == {DiffUniform(x, dt) : x \in CVArrays}

CVKwValue ==
    [t |-> arange(0, CVRows * dt, dt),
     x_dot |-> DiffUniform(solve_ivp(2, <<0, (CVRows - 1) * dt>>, arange(0, CVRows * dt, dt)), dt),
     quiet |-> TRUE,
     multiple_trajectories |-> TRUE,
     metric |-> "mean_squared_error",
     sample_weight |-> arange(1, CVRows + 1, 1)]

KwargsOver(keys) == {[k \in S |-> CVKwValue[k]] : S \in SUBSET keys}

InitCV ==
    /\ run = 1
    /\ oracle \in 0..MaxOracle
    /\ prev = [hist |-> <<>>, stdout |-> <<>>]
    /\ pc = 1
    /\ err = "none"
    /\ rng = 0
    /\ setup = NoSetup
    /\ defined = {"ps", "SINDyCV", "r2_score", "model"}
    /\ t_train = <<>> /\ x_train = <<>> /\ t_test = <<>> /\ x_test = <<>>
    /\ model = SINDyCV_init(<<>>)
    /\ x_dot = <<>>
    /\ param_grid = NoGrid
    /\ search = NoSearch
    /\ stack = <<>>
    /\ calls = <<>> /\ ret = None /\ args = NoArgs
    /\ diffs = [explicit |-> 0, search |-> 0]
    /\ stdout = <<>>
    /\ log = <<>>
    /\ hist = <<>>

cvFrame == <<pc, run, rng, oracle, setup, defined, dataVars, x_dot, param_grid,
             search, stack, diffs, stdout, log, hist, prev>>

\* model.fit(x, y, **kw)
CVFit ==
    \E x \in CVArrays, y \in CVDerivs, kw \in KwargsOver({"t", "x_dot", "quiet"}) :
        LET r == SINDyCV_fit(model, x, y, kw)
        IN  /\ args' = [method |-> "fit", self |-> model, x |-> x, y |-> y, kw |-> kw]
            /\ calls' = r.calls
            /\ ret' = r.ret
            /\ err' = r.exc
            /\ model' = r.self
            /\ UNCHANGED cvFrame

\* model.score(x, y, **kw)
CVScore ==
    \E x \in CVArrays, y \in CVDerivs,
       kw \in KwargsOver({"t", "multiple_trajectories", "metric", "x_dot",
                          "sample_weight"}) :
        LET r == SINDyCV_score(model, x, y, kw, oracle)
        IN  /\ args' = [method |-> "score", self |-> model, x |-> x, y |-> y, kw |-> kw]
            /\ calls' = r.calls
            /\ ret' = r.ret
            /\ err' = r.exc
            /\ model' = r.self
            /\ UNCHANGED cvFrame

NextCV == CVFit \/ CVScore

SpecCV == InitCV /\ [][NextCV]_vars

----------------------------------------------------------------------------
(* Properties *)

CalledAs(m) == args.method = m

\* what SINDyCV.fit must hand to SINDy.fit for the call in args
FitForwarded ==
    /\ Len(calls) = 1
    /\ calls[1].fn = "SINDy.fit"
    /\ calls[1].x = args.x
    /\ DOMAIN calls[1].kw = {"x_dot"} \cup DOMAIN args.kw
    /\ calls[1].kw["x_dot"] = args.y
    /\ \A k \in (DOMAIN args.kw) \ {"x_dot"} : calls[1].kw[k] = args.kw[k]
    /\ err = "none"
    /\ ret = SINDy_fit(args.self, args.x, calls[1].kw)
    /\ model = ret

\* what SINDyCV.score must hand to SINDy.score for the call in args
ScoreForwarded ==
    /\ Len(calls) = 1
    /\ calls[1].fn = "SINDy.score"
    /\ calls[1].x = args.x
    /\ DOMAIN calls[1].kw = {"x_dot"} \cup ScoreNamed \cup DOMAIN args.kw
    /\ calls[1].kw["x_dot"] = args.y
    /\ \A k \in (DOMAIN args.kw) \ {"x_dot"} : calls[1].kw[k] = args.kw[k]
    /\ "t" \notin DOMAIN args.kw => IsNone(calls[1].kw["t"])
    /\ IsNone(calls[1].kw["u"])
    /\ "multiple_trajectories" \notin DOMAIN args.kw
          => calls[1].kw["multiple_trajectories"] = FALSE
    /\ "metric" \notin DOMAIN args.kw => calls[1].kw["metric"] = "r2_score"
    /\ err = (IF args.self.fitted THEN "none" ELSE "NotFittedError")
    /\ args.self.fitted => ret = SINDy_score(args.self, args.x, calls[1].kw, oracle)
    /\ model = args.self

\* C1 as stated: every call SINDyCV.fit(x, y, **kwargs) invokes SINDy.fit
\* exactly once with the same x, x_dot = y and the extra keywords unchanged and
\* returns its result unchanged; every call SINDyCV.score(x, y, ...) does the
\* same with SINDy.score (metric defaulting to r2_score); the estimator is
\* changed by nothing but the parent's method.
C1_EveryCallForwarded ==
    /\ CalledAs("fit") => FitForwarded
    /\ CalledAs("score") => ScoreForwarded

\* C1 amended: the above for every call whose extra keywords do not include
\* x_dot; a call that does include x_dot raises TypeError, invokes nothing
\* and leaves the estimator as it was.
C1_ForwardedUnlessXDotKeyword ==
    /\ (CalledAs("fit") /\ "x_dot" \notin DOMAIN args.kw) => FitForwarded
    /\ (CalledAs("score") /\ "x_dot" \notin DOMAIN args.kw) => ScoreForwarded
    /\ (~CalledAs("none") /\ "x_dot" \in DOMAIN args.kw)
          => (err = "TypeError" /\ calls = <<>> /\ model = args.self)

\* a score call that leaves metric out and passes a metric keyword through,
\* on a fitted estimator
C1_Witness ==
    /\ CalledAs("score")
    /\ args.self.fitted
    /\ DOMAIN args.kw = {"sample_weight", "t"}
    /\ Len(calls) = 1
    /\ calls[1].kw["metric"] = "r2_score"
    /\ calls[1].kw["x_dot"] = args.y
    /\ err = "none"

----------------------------------------------------------------------------

DiffKeys ==
    {"differentiation_method", "differentiation_method__kwargs",
     "differentiation_method__order"}

\* the search that is given y: the one that does not use TimeSeriesSplit
PrecomputedSearch ==
    /\ search.phase \in {"fitting", "fitted"}
    /\ search.cv.kind # "TimeSeriesSplit"

LastOp == IF log = <<>> THEN "none" ELSE log[Len(log)].op

\* the call in args was made by the search that is running or just returned
CallOfSearch ==
    /\ search.nfit[1] >= 1
    /\ stack # <<>> \/ LastOp = "search_fit_return"

RowOf(row) == CHOOSE i \in 1..Len(x_train) : x_train[i] = row

\* y holds, row for row, the rows of x_dot at the indices of the rows of x
SameRows(x, y) ==
    /\ Len(y) = Len(x)
    /\ \A k \in 1..Len(x) : y[k] = x_dot[RowOf(x[k])]

\* C2: in the search without TimeSeriesSplit, the derivatives are computed
\* once, by the one explicit differentiate call that precedes search.fit;
\* every fit and score call of the search gets as y the rows of that x_dot at
\* the indices of its rows of x, and hands them on as x_dot, so nothing is
\* differentiated during the search; no key of the grid addresses the
\* differentiation method.
C2_DerivativesPrecomputed ==
    PrecomputedSearch =>
        /\ diffs.explicit = 1
        /\ diffs.search = 0
        /\ Cardinality({i \in 1..Len(log) : log[i].op = "differentiate"}) = 1
        /\ \A j \in 1..Len(log) :
              (log[j].op = "search_fit" /\ Program[log[j].stmt].a.y # "none")
                 => \E i \in 1..(j - 1) : log[i].op = "differentiate" /\ log[i].ok
        /\ x_dot = DiffArray(x_train, t_train)
        /\ search.y = x_dot
        /\ (DOMAIN search.grid) \cap DiffKeys = {}
        /\ CallOfSearch =>
              /\ SameRows(args.x, args.y)
              /\ Len(calls) = 1
              /\ calls[1].x = args.x
              /\ calls[1].kw["x_dot"] = args.y

\* the last candidate has just been scored on a test split of the shuffle
C2_Witness ==
    /\ PrecomputedSearch
    /\ stack # <<>>
    /\ search.sub = "refit"
    /\ CalledAs("score")
    /\ Len(args.x) = SSNTest(Len(x_train), SS_TEST_PCT)
    /\ SameRows(args.x, args.y)

----------------------------------------------------------------------------

\* C3 as stated: a second run of the notebook uses the same splits in each
\* of the three searches, selects the same best parameters and prints the
\* same output as the first.
C3_RunsAgree ==
    run > 1 =>
        /\ \A i \in 1..Len(hist) :
              /\ hist[i].splits = prev.hist[i].splits
              /\ hist[i].best_params = prev.hist[i].best_params
        /\ \A i \in 1..Len(stdout) : stdout[i] = prev.stdout[i]

----------------------------------------------------------------------------

\* the searches in which SINDy differentiates the data itself: no y is given
SelfDifferentiatingSearch ==
    /\ search.phase \in {"fitting", "fitted"}
    /\ IsNone(search.y)

\* train is 0..k-1, test is the block that starts at k, within n rows
Sequential(sp, n) ==
    /\ Len(sp.train) >= 1
    /\ Len(sp.test) >= 1
    /\ \A i \in 1..Len(sp.train) : sp.train[i] = i - 1
    /\ \A j \in 1..Len(sp.test) : sp.test[j] = Len(sp.train) + j - 1
    /\ Len(sp.train) + Len(sp.test) <= n
    /\ sp.train[Len(sp.train)] < sp.test[1]

\* C4: in the searches that let SINDy differentiate the data, each of the 5
\* splits has as training indices a prefix 0..k-1 and as test indices the
\* block starting at k, every training index below every test index, and
\* the splits do not depend on the random generator.  The same holds of the
\* 5 splits of the notebook's 5000 rows.
C4_SequentialSplits ==
    SelfDifferentiatingSearch =>
        /\ Len(search.splits) = 5
        /\ \A k \in 1..Len(search.splits) :
              /\ Sequential(search.splits[k], Len(x_train))
              /\ \A i \in 1..Len(search.splits[k].train) :
                    \A j \in 1..Len(search.splits[k].test) :
                        search.splits[k].train[i] < search.splits[k].test[j]
        /\ \A s \in 0..MaxSeed :
              CVSplit(search.cv, s, Len(x_train)).splits = search.splits
        /\ search.sub = "refit" =>
              /\ ArangeLen(0, TRAIN_END, dt) = 5000
              /\ \A k \in 1..5 :
                    Sequential(CVSplit(search.cv, rng, 5000).splits[k], 5000)

\* the second search is scoring on its last split
C4_Witness ==
    /\ SelfDifferentiatingSearch
    /\ Len(hist) = 1
    /\ search.sub = "score"
    /\ search.s = 5
    /\ Len(search.splits[5].train) > Len(search.splits[1].train)

----------------------------------------------------------------------------

\* t is 0, dt, 2 dt, ...: n entries, strictly increasing, all within its span
UniformTimes(t, n) ==
    /\ Len(t) = n
    /\ n >= 2
    /\ t[1] = 0
    /\ \A i \in 1..n : t[i] = (i - 1) * dt
    /\ \A i \in 1..(n - 1) : t[i] < t[i + 1] /\ t[i + 1] - t[i] = dt
    /\ InSpan(Span(t), t)

\* C5: t_train and t_test are 0, dt, 2 dt, ... (strictly increasing, constant
\* step dt, first entry 0, every entry within the integration span), with
\* 5000 and 7500 entries for the notebook's stops; and every model that is
\* fitted or scored without precomputed derivatives (and without t) was
\* constructed with t_default = dt.
C5_UniformTimesteps ==
    /\ ArangeLen(0, TRAIN_END, dt) = 5000
    /\ ArangeLen(0, TEST_END, dt) = 7500
    /\ "t_train" \in defined =>
          /\ UniformTimes(t_train, ArangeLen(0, TrainStop, dt))
          /\ UniformTimes(t_test, ArangeLen(0, TestStop, dt))
          /\ Len(x_train) = Len(t_train) /\ Len(x_test) = Len(t_test)
          /\ \A i \in 1..Len(x_train) : x_train[i][2] = t_train[i]
          /\ \A i \in 1..Len(x_test) : x_test[i][2] = t_test[i]
    /\ (~CalledAs("none") /\ IsNone(args.y)) =>
          /\ args.self.init.t_default = dt
          /\ Len(calls) = 1
          /\ ~Given(calls[1].kw, "x_dot") /\ ~Given(calls[1].kw, "t")
    /\ (model.fitted /\ model.cls = "SINDy") => model.init.t_default = dt

\* the OrthogonalMatchingPursuit model has been fitted on x_train
C5_Witness ==
    /\ Done
    /\ CalledAs("fit")
    /\ IsNone(args.y)
    /\ args.self.init.optimizer
          = "OrthogonalMatchingPursuit(n_nonzero_coefs=8, fit_intercept=False)"
    /\ args.x = x_train
    /\ model.fitted
    /\ Len(hist) = 3

----------------------------------------------------------------------------

FitOps == {"search_fit", "model_fit"}

\* log[i] is the completed fit of the model that log[j] prints
FitOfPrinted(i, j) ==
    IF Program[log[j].stmt].a.target = "model"
    THEN /\ log[i].op = "model_fit"
         /\ \A m \in (i + 1)..(j - 1) : log[m].op # "new_model"
    ELSE /\ log[i].op = "search_fit_return"
         /\ \A m \in (i + 1)..(j - 1) : log[m].op \notin {"new_search", "search_fit"}

\* C6: the training data exists before any fit starts; every print of a
\* model's equations comes after the completed fit of that model; the best
\* parameters are read only after search.fit has returned; at most one call
\* of the notebook is in progress, and while it is no other statement runs;
\* no statement raises.
C6_SequentialOrder ==
    /\ err = "none"
    /\ \A j \in 1..Len(log) :
          /\ log[j].ok
          /\ log[j].op \in FitOps =>
                \E i \in 1..(j - 1) : log[i].op = "gen_data" /\ log[i].ok
          /\ log[j].op = "print_eq" =>
                \E i \in 1..(j - 1) : log[i].ok /\ FitOfPrinted(i, j)
          /\ log[j].op = "print_best" =>
                \E i \in 1..(j - 1) :
                    /\ log[i].op = "search_fit_return"
                    /\ \A m \in (i + 1)..(j - 1) :
                          log[m].op \notin {"new_search", "search_fit"}
          /\ log[j].op = "search_fit_return" => (j > 1 /\ log[j - 1].op = "search_fit")
    /\ Len(stack) <= 1
    /\ stack # <<>> => (LastOp = "search_fit" /\ search.phase = "fitting")
    /\ stack = <<>> => search.phase # "fitting"
    /\ \A i \in 1..Len(stdout) :
          stdout[i].kind = "equations" => stdout[i].value.rows = Len(x_train)

\* the whole notebook has run: five models printed, three of them after a search
C6_Witness ==
    /\ Done
    /\ run = 1
    /\ Len(stdout) = 8
    /\ Cardinality({i \in 1..Len(stdout) : stdout[i].kind = "equations"}) = 5
    /\ LastOp = "print_eq"

----------------------------------------------------------------------------

\* the cell whose search.fit was called last
SearchCell ==
    LET js == {j \in 1..Len(log) : log[j].op = "search_fit"}
    IN  IF js = {} THEN 0
        ELSE Program[log[CHOOSE j \in js : \A m \in js : m <= j].stmt].cell

\* candidates and splits of the searches of cells 3, 4 and 6
ExpectedSizes(cell) ==
    IF cell = 3 THEN <<36, 5>>
    ELSE IF cell = 4 THEN <<12, 5>>
    ELSE <<27, 3>>

RecordedBest(cell) ==
    IF cell = 3 THEN RecordedBest1
    ELSE IF cell = 4 THEN RecordedBest2
    ELSE RecordedBest3

AllCandidates(grid) == {Candidate(grid, c) : c \in 1..GridSize(grid)}

\* p gives each key of the grid one of the values in that key's list
InGrid(p, grid) ==
    /\ DOMAIN p = DOMAIN grid
    /\ \A k \in DOMAIN grid : \E i \in 1..Len(grid[k]) : grid[k][i] = p[k]

\* C7: each search has as candidates exactly the Cartesian product of its
\* grid's lists (36, 12 and 27), fits and scores each of them once on each
\* split (5, 5 and 3), and its best_params_ is a candidate of highest mean
\* score, with the grid's keys and a listed value for each; the best
\* parameters in the notebook's outputs are candidates of their grids.
C7_GridSearch ==
    /\ search.phase = "fitting" =>
          /\ <<Len(search.scores), Len(search.splits)>> = ExpectedSizes(SearchCell)
          /\ GridSize(search.grid) = Len(search.scores)
          /\ \A c \in 1..Len(search.scores) :
                /\ search.nfit[c] <= Len(search.splits)
                /\ Len(search.scores[c]) <= search.nfit[c]
                /\ c < search.c =>  Len(search.scores[c]) = Len(search.splits)
                /\ c > search.c =>  search.nfit[c] = 0
    /\ search.phase = "fitted" =>
          /\ <<Len(search.scores), Len(search.splits)>> = ExpectedSizes(SearchCell)
          /\ GridSize(search.grid) = Len(search.scores)
          /\ Cardinality(AllCandidates(search.grid)) = GridSize(search.grid)
          /\ \A p \in AllCandidates(search.grid) : InGrid(p, search.grid)
          /\ \A c \in 1..Len(search.scores) :
                /\ search.nfit[c] = Len(search.splits)
                /\ Len(search.scores[c]) = Len(search.splits)
                /\ SumSeq(search.scores[c]) <= SumSeq(search.scores[search.best_index])
          /\ search.best_index \in 1..GridSize(search.grid)
          /\ search.best_params = Candidate(search.grid, search.best_index)
          /\ search.best_params \in AllCandidates(search.grid)
          /\ InGrid(search.best_params, search.grid)
          /\ search.best_estimator.params = search.best_params
          /\ search.best_estimator.fitted
          /\ RecordedBest(SearchCell) \in AllCandidates(search.grid)

\* the third search has returned a best candidate that is not the first one
\* and that strictly beats another candidate
C7_Witness ==
    /\ search.phase = "fitted"
    /\ SearchCell = 6
    /\ search.best_index > 1
    /\ \E c \in 1..Len(search.scores) :
          SumSeq(search.scores[c]) < SumSeq(search.scores[search.best_index])
    /\ LastOp = "print_best"

====
